---------------------------- MODULE Spec2Model ----------------------------
(***************************************************************************)
(* A model of PayrollSystem.cpp: the employee registry, the payroll ledger *)
(* (hours per employee and month, loadedPayFiles, processedMonths, the     *)
(* error list) and the operations loadEmployees, loadPayFile,              *)
(* removePayRecordsForMonth and sortEmployeesMenu.                         *)
(*                                                                         *)
(* Representation.                                                         *)
(*  - A std::string is a sequence of one-character strings.                *)
(*  - A double is an exact rational [n |-> numerator, d |-> denominator]   *)
(*    in lowest terms with d > 0; binary rounding is not modelled.         *)
(*  - A text line is the sequence of its whitespace-separated tokens, as   *)
(*    operator>> of an istringstream extracts them.                        *)
(*  - A std::map is a function whose DOMAIN is the set of its keys.        *)
(***************************************************************************)
EXTENDS Integers, Sequences, FiniteSets, TLC

(***************************************************************************)
(* Bounds of the model.                                                    *)
(***************************************************************************)
\* the largest number of lines in a pay file
MaxLines == 2
\* the largest length processedMonths may reach (loadPayFile is not called
\* when it would leave a longer one)
MaxMonths == 2

(***************************************************************************)
(* namespace Payroll, namespace Inputs, namespace FileExt                  *)
(***************************************************************************)
\* TAX_FREE_ALLOWANCE = 12570.0
TAX_FREE_ALLOWANCE == 12570
\* TAX_RATE = 0.20 = TAX_RATE_NUM / TAX_RATE_DEN
TAX_RATE_NUM == 1
TAX_RATE_DEN == 5
MONTHS_IN_YEAR == 12
SORT_HOURLY_RATE == 1
SORT_HOURS_WORKED == 2
SORT_NET_PAY == 3
YES == "y"
NO == "n"
TXT == <<".", "t", "x", "t">>

(***************************************************************************)
(* Doubles as exact rationals.                                             *)
(***************************************************************************)
Abs(x) == IF x < 0 THEN -x ELSE x

RECURSIVE Gcd(_, _)
Gcd(a, b) == IF b = 0 THEN a ELSE Gcd(b, a % b)

\* the rational n/d (d # 0) in lowest terms with a positive denominator
Rat(n, d) ==
  LET g == Gcd(Abs(n), Abs(d))
      s == IF d < 0 THEN -1 ELSE 1
  IN  [n |-> (s * n) \div g, d |-> (s * d) \div g]

Dbl(k) == Rat(k, 1)
DMul(a, b) == Rat(a.n * b.n, a.d * b.d)
DSub(a, b) == Rat(a.n * b.d - b.n * a.d, a.d * b.d)
DDiv(a, b) == Rat(a.n * b.d, a.d * b.n)
DLess(a, b) == a.n * b.d < b.n * a.d

(***************************************************************************)
(* Characters and strings.                                                 *)
(***************************************************************************)
LowerCase == <<"a","b","c","d","e","f","g","h","i","j","k","l","m",
               "n","o","p","q","r","s","t","u","v","w","x","y","z">>
UpperCase == <<"A","B","C","D","E","F","G","H","I","J","K","L","M",
               "N","O","P","Q","R","S","T","U","V","W","X","Y","Z">>
Digits == <<"0","1","2","3","4","5","6","7","8","9">>
WhiteSpace == {" ", "\t", "\r", "\n"}

\* ::toupper on one character
toupper(c) ==
  IF \E i \in DOMAIN LowerCase : LowerCase[i] = c
    THEN UpperCase[CHOOSE i \in DOMAIN LowerCase : LowerCase[i] = c]
    ELSE c

\* toUpper(s): transform(..., ::toupper)
toUpper(s) == [i \in DOMAIN s |-> toupper(s[i])]

\* trim(s): s without leading and trailing " \t\r\n"; "" when s is blank
trim(s) ==
  LET keep == {i \in DOMAIN s : s[i] \notin WhiteSpace}
  IN  IF keep = {} THEN <<>>
      ELSE LET start == CHOOSE i \in keep : \A j \in keep : i <= j
               end   == CHOOSE i \in keep : \A j \in keep : j <= i
           IN  SubSeq(s, start, end)

\* s.find(t): the first position (from 0) where t occurs in s, or -1 (npos)
Find(s, t) ==
  LET hits == {p \in 0..(Len(s) - Len(t)) : SubSeq(s, p + 1, p + Len(t)) = t}
  IN  IF hits = {} THEN -1 ELSE CHOOSE p \in hits : \A q \in hits : p <= q

\* s.substr(0, n), with n = -1 standing for npos (the whole string)
Substr0(s, n) == IF n < 0 \/ n > Len(s) THEN s ELSE SubSeq(s, 1, n)

\* the month-key of a pay file name: toUpper(filename.substr(0, find(".txt")))
MonthOf(filename) == toUpper(Substr0(filename, Find(filename, TXT)))

IsDigit(c) == \E i \in DOMAIN Digits : Digits[i] = c
DigitVal(c) == (CHOOSE i \in DOMAIN Digits : Digits[i] = c) - 1

\* the longest prefix of digits of a token
RECURSIVE DigitPrefix(_)
DigitPrefix(tok) ==
  IF tok = <<>> \/ ~IsDigit(Head(tok)) THEN <<>>
  ELSE <<Head(tok)>> \o DigitPrefix(Tail(tok))

RECURSIVE DecimalValue(_)
DecimalValue(ds) ==
  IF ds = <<>> THEN 0
  ELSE 10 * DecimalValue(SubSeq(ds, 1, Len(ds) - 1)) + DigitVal(ds[Len(ds)])

\* iss >> double: succeeds on a token that starts with digits and reads them
CanReadDouble(tok) == DigitPrefix(tok) # <<>>
ReadDouble(tok) == Dbl(DecimalValue(DigitPrefix(tok)))

(***************************************************************************)
(* std::map and std::vector helpers.                                       *)
(***************************************************************************)
EmptyMap == [k \in {} |-> 0]
\* m[k] = v
MapPut(m, k, v) == [x \in DOMAIN m \cup {k} |-> IF x = k THEN v ELSE m[x]]
\* m.erase(k)
MapErase(m, k) == [x \in DOMAIN m \ {k} |-> m[x]]

Elems(v) == {v[i] : i \in DOMAIN v}

\* find(v.begin(), v.end(), x) followed by erase(it) when found:
\* v without the first occurrence of x
EraseFirst(v, x) ==
  IF x \notin Elems(v) THEN v
  ELSE LET i == CHOOSE j \in DOMAIN v : v[j] = x /\ \A k \in 1..(j - 1) : v[k] # x
       IN  SubSeq(v, 1, i - 1) \o SubSeq(v, i + 1, Len(v))

(***************************************************************************)
(* class Employee                                                          *)
(***************************************************************************)
\* Employee(_id, _name, _rate): no hours recorded
Employee(id, name, rate) ==
  [id |-> id, name |-> name, hourlyRate |-> rate, hoursWorked |-> EmptyMap]

getGrossPay(e, month) ==
  IF month \notin DOMAIN e.hoursWorked THEN Dbl(0)
  ELSE DMul(e.hourlyRate, e.hoursWorked[month])

\* a variant of getTax that does not clamp the taxable amount at 0
getTax_NoClamp(e, month) ==
  LET gross     == getGrossPay(e, month)
      annual    == DMul(gross, Dbl(MONTHS_IN_YEAR))
      taxable   == DSub(annual, Dbl(TAX_FREE_ALLOWANCE))
      annualTax == DMul(taxable, Rat(TAX_RATE_NUM, TAX_RATE_DEN))
  IN  DDiv(annualTax, Dbl(MONTHS_IN_YEAR))

getTax(e, month) ==
  LET gross     == getGrossPay(e, month)
      annual    == DMul(gross, Dbl(MONTHS_IN_YEAR))
      taxable0  == DSub(annual, Dbl(TAX_FREE_ALLOWANCE))
      taxable   == IF DLess(taxable0, Dbl(0)) THEN Dbl(0) ELSE taxable0
      annualTax == DMul(taxable, Rat(TAX_RATE_NUM, TAX_RATE_DEN))
  IN  DDiv(annualTax, Dbl(MONTHS_IN_YEAR))

getNetPay(e, month) == DSub(getGrossPay(e, month), getTax(e, month))

(***************************************************************************)
(* class PayrollSystem: the operations as functions of the ledger          *)
(*   L = [employees, loadedPayFiles, processedMonths, errors].             *)
(***************************************************************************)
\* a file: whether it can be opened, and its lines
TextFile(lines) == [readable |-> TRUE, lines |-> lines]
\* a file that cannot be opened
NoFile == [readable |-> FALSE, lines |-> <<>>]

\* one line of loadEmployees' loop
RegistryLine(emps, line) ==
  IF Len(line) < 3 \/ ~CanReadDouble(line[3]) THEN emps
  ELSE LET id == toUpper(trim(line[1]))
       IN  MapPut(emps, id, Employee(id, trim(line[2]), ReadDouble(line[3])))

RECURSIVE RegistryLines(_, _)
RegistryLines(emps, lines) ==
  IF lines = <<>> THEN emps
  ELSE RegistryLines(RegistryLine(emps, Head(lines)), Tail(lines))

\* a variant of EraseHours that erases nothing
EraseHours_None(emps, month) == emps

\* hoursWorked.erase(month) for every employee
EraseHours(emps, month) ==
  [id \in DOMAIN emps |->
     [emps[id] EXCEPT !.hoursWorked = MapErase(@, month)]]

removePayRecordsForMonth(L, month) ==
  [L EXCEPT !.employees = EraseHours(@, month),
            !.processedMonths = EraseFirst(@, month)]

\* the duplicate check of loadPayFile: is the caller asked?
Asks(L, upMonth, replace) == upMonth \in L.loadedPayFiles /\ ~replace

\* a variant of Answered that removes the records before the answer is read
Answered_Always(L, upMonth, choice) ==
  [removePayRecordsForMonth(L, upMonth) EXCEPT !.loadedPayFiles = @ \ {upMonth}]

\* the ledger after the prompt was answered with choice
Answered(L, upMonth, choice) ==
  IF choice = YES
    THEN [removePayRecordsForMonth(L, upMonth)
            EXCEPT !.loadedPayFiles = @ \ {upMonth}]
    ELSE L

\* the error messages, as the pieces they are concatenated from
NotFoundError(filename) ==
  <<filename, <<"Pay file ">> \o filename \o <<" could not be found.">>>>
InvalidIdError(filename, id) ==
  <<filename, id \o <<" is not a valid employee ID number.">>>>

\* a variant of PayLine without the employees.count(id) test: operator[]
\* inserts a default Employee for an unknown identifier
PayLine_Insert(L, filename, upMonth, line) ==
  IF Len(line) < 2 \/ ~CanReadDouble(line[2]) THEN L
  ELSE LET id    == toUpper(trim(line[1]))
           hours == ReadDouble(line[2])
           emps  == IF id \in DOMAIN L.employees THEN L.employees
                    ELSE MapPut(L.employees, id, Employee(<<>>, <<>>, Dbl(0)))
       IN  [L EXCEPT !.employees =
              [emps EXCEPT ![id].hoursWorked = MapPut(@, upMonth, hours)]]

\* a variant of PayLine that adds the hours to the entry already there
PayLine_Accumulate(L, filename, upMonth, line) ==
  IF Len(line) < 2 \/ ~CanReadDouble(line[2]) THEN L
  ELSE LET id    == toUpper(trim(line[1]))
           hours == ReadDouble(line[2])
       IN  IF id \in DOMAIN L.employees
             THEN LET old == L.employees[id].hoursWorked
                      sum == IF upMonth \in DOMAIN old
                               THEN Rat(old[upMonth].n * hours.d + hours.n * old[upMonth].d,
                                        old[upMonth].d * hours.d)
                               ELSE hours
                  IN  [L EXCEPT !.employees[id].hoursWorked = MapPut(@, upMonth, sum)]
             ELSE [L EXCEPT !.errors = Append(@, InvalidIdError(filename, id))]

\* one line of loadPayFile's loop
PayLine(L, filename, upMonth, line) ==
  IF Len(line) < 2 \/ ~CanReadDouble(line[2]) THEN L
  ELSE LET id    == toUpper(trim(line[1]))
           hours == ReadDouble(line[2])
       IN  IF id \in DOMAIN L.employees
             THEN [L EXCEPT !.employees[id].hoursWorked = MapPut(@, upMonth, hours)]
             ELSE [L EXCEPT !.errors = Append(@, InvalidIdError(filename, id))]

\* a variant of PayLines that stops at the first unknown identifier
RECURSIVE PayLines_StopAtUnknown(_, _, _, _)
PayLines_StopAtUnknown(L, filename, upMonth, lines) ==
  IF lines = <<>> THEN L
  ELSE LET L1 == PayLine(L, filename, upMonth, Head(lines))
       IN  IF L1.errors # L.errors THEN L1
           ELSE PayLines_StopAtUnknown(L1, filename, upMonth, Tail(lines))

RECURSIVE PayLines(_, _, _, _)
PayLines(L, filename, upMonth, lines) ==
  IF lines = <<>> THEN L
  ELSE PayLines(PayLine(L, filename, upMonth, Head(lines)),
                filename, upMonth, Tail(lines))

\* loadedPayFiles.insert(upMonth); processedMonths.push_back(upMonth)
MarkProcessed(L, upMonth) ==
  [L EXCEPT !.loadedPayFiles = @ \cup {upMonth},
            !.processedMonths = Append(@, upMonth)]

\* logErrors(): the errors go to errors.txt and the list is cleared
logErrors(L) == [L EXCEPT !.errors = <<>>]

\* loadPayFile(filename, outMonth, replace) on ledger L, where file is the
\* file read (or NoFile) and choice is the answer to the prompt if asked:
\* the ledger it leaves, the records it logged and what it returned
loadPayFile(L, filename, file, replace, choice) ==
  LET upMonth == MonthOf(filename)
      asked   == Asks(L, upMonth, replace)
      L1      == IF asked THEN Answered(L, upMonth, choice) ELSE L
  IN  IF asked /\ choice # YES
        THEN [ledger |-> L1, logged |-> <<>>, outMonth |-> upMonth,
              outcome |-> "declined", ret |-> FALSE]
      ELSE IF ~file.readable
        THEN LET L2 == [L1 EXCEPT !.errors = Append(@, NotFoundError(filename))]
             IN  [ledger |-> logErrors(L2), logged |-> L2.errors,
                  outMonth |-> upMonth, outcome |-> "unreadable", ret |-> FALSE]
      ELSE LET L2 == MarkProcessed(PayLines(L1, filename, upMonth, file.lines), upMonth)
           IN  [ledger |-> logErrors(L2), logged |-> L2.errors,
                outMonth |-> upMonth, outcome |-> "ok", ret |-> TRUE]


\* the comparator of the chosen criterion: does a go before b?
Before(a, b, month, crit) ==
  CASE crit = SORT_HOURLY_RATE  -> DLess(b.hourlyRate, a.hourlyRate)
    [] crit = SORT_HOURS_WORKED -> DLess(b.hoursWorked[month], a.hoursWorked[month])
    [] crit = SORT_NET_PAY      -> DLess(getNetPay(b, month), getNetPay(a, month))

\* the identifiers of the employees who worked in month (emps of
\* sortEmployeesMenu, before sorting)
Worked(emps, month) == {id \in DOMAIN emps : month \in DOMAIN emps[id].hoursWorked}

\* what std::sort may leave: any arrangement of the elements in which no
\* element goes before an earlier one (the order of equivalent elements
\* is unspecified)
SortResults(emps, month, crit) ==
  LET ids == Worked(emps, month)
      n   == Cardinality(ids)
  IN  {p \in [1..n -> ids] :
         /\ \A i, j \in 1..n : i # j => p[i] # p[j]
         /\ \A i, j \in 1..n : i < j => ~Before(emps[p[j]], emps[p[i]], month, crit)}


(***************************************************************************)
(* The inputs: the files of the environment and the arguments of calls.    *)
(***************************************************************************)
\* lines of employees.txt
EmpE1Al15 == << <<"e","1">>, <<"A","l">>, <<"1","5">> >>
EmpE2Bo15 == << <<"E","2">>, <<"B","o">>, <<"1","5">> >>
EmpE2Bo10 == << <<"e","2">>, <<"B","o">>, <<"1","0">> >>
EmpE1Cy10 == << <<"E","1">>, <<"C","y">>, <<"1","0">> >>
EmpNoRate == << <<"e","2">>, <<"B","o">> >>

\* what employees.txt may be
RegistryFiles ==
  { TextFile(<<EmpE1Al15, EmpE2Bo10>>),
    TextFile(<<EmpNoRate, EmpE1Al15, EmpE1Cy10>>),
    NoFile }
\* what employees.txt may be in SpecSort: also two employees of one rate
SortRegistryFiles ==
  { TextFile(<<EmpE1Al15, EmpE2Bo15>>),
    TextFile(<<EmpE1Al15, EmpE2Bo10>>),
    NoFile }

\* lines of a pay file; E2 is an unknown identifier under the registry
\* that holds E1 alone, and PayE2hX is malformed (no hours can be read)
PayE1h160 == << <<"e","1">>, <<"1","6","0">> >>
PayE1h100 == << <<"E","1">>, <<"1","0","0">> >>
PayE2h100 == << <<"e","2">>, <<"1","0","0">> >>
PayE2hX   == << <<"E","2">>, <<"x">> >>
PayLineSet == {PayE1h160, PayE1h100, PayE2h100, PayE2hX}

\* what a pay file may be: up to MaxLines lines, or unreadable
PayFiles ==
  {TextFile(ls) : ls \in UNION {[1..n -> PayLineSet] : n \in 0..MaxLines}}
    \cup {NoFile}

\* the names of pay files: one with the extension, one without
PayFileNames == { <<"j",".","t","x","t">>, <<"f">> }
Months == {MonthOf(f) : f \in PayFileNames}
Criteria == {SORT_HOURLY_RATE, SORT_HOURS_WORKED, SORT_NET_PAY}

(***************************************************************************)
(* The state.                                                              *)
(***************************************************************************)
VARIABLES
  pc,               \* where run() is: "start", "menu", or "done"
  employees,        \* map<string, Employee>
  loadedPayFiles,   \* set<string>
  processedMonths,  \* vector<string>
  errors,           \* vector<pair<string, string>>
  logged,           \* what the latest operation appended to errors.txt
  listing,          \* the rows the latest operation listed (identifiers)
  last,             \* the latest operation: its name, month, criterion, outcome
  given             \* a pay file submission fixed in advance (SpecGiven)

vars == <<pc, employees, loadedPayFiles, processedMonths, errors,
          logged, listing, last, given>>

Ledger ==
  [employees |-> employees, loadedPayFiles |-> loadedPayFiles,
   processedMonths |-> processedMonths, errors |-> errors]

\* ret is the value returned (TRUE for an operation that returns nothing)
Op(op, month, crit, outcome, ret) ==
  [op |-> op, month |-> month, crit |-> crit, outcome |-> outcome, ret |-> ret]

NoGiven ==
  [set |-> FALSE, used |-> FALSE, filename |-> <<>>, file |-> NoFile,
   replace |-> FALSE, choice |-> NO]

\* PayrollSystem() = default
Constructed ==
  /\ pc = "start"
  /\ employees = EmptyMap
  /\ loadedPayFiles = {}
  /\ processedMonths = <<>>
  /\ errors = <<>>
  /\ logged = <<>>
  /\ listing = <<>>
  /\ last = Op("none", <<>>, 0, "none", TRUE)

Init == Constructed /\ given = NoGiven

(***************************************************************************)
(* The operations.                                                         *)
(***************************************************************************)
\* run() calls loadEmployees(EMPLOYEES_FILE) and returns if it fails
Call_loadEmployees(file) ==
  /\ pc = "start"
  /\ IF file.readable
       THEN /\ employees' = RegistryLines(employees, file.lines)
            /\ pc' = "menu"
            /\ last' = Op("loadEmployees", <<>>, 0, "ok", TRUE)
       ELSE /\ employees' = employees
            /\ pc' = "done"
            /\ last' = Op("loadEmployees", <<>>, 0, "unreadable", FALSE)
  /\ logged' = <<>>
  /\ listing' = <<>>
  /\ UNCHANGED <<loadedPayFiles, processedMonths, errors>>

\* loadPayFile(filename, outMonth, replace), the prompt answered by choice
Call_loadPayFile(filename, file, replace, choice) ==
  /\ pc = "menu"
  \* (the set of one element has the result computed once)
  /\ \E r \in {loadPayFile(Ledger, filename, file, replace, choice)} :
         /\ Len(r.ledger.processedMonths) <= MaxMonths
         /\ employees' = r.ledger.employees
         /\ loadedPayFiles' = r.ledger.loadedPayFiles
         /\ processedMonths' = r.ledger.processedMonths
         /\ errors' = r.ledger.errors
         /\ logged' = r.logged
         /\ last' = Op("loadPayFile", r.outMonth, 0, r.outcome, r.ret)
  /\ listing' = <<>>
  /\ pc' = pc

\* removePayRecordsForMonth(month)
Call_removePayRecordsForMonth(month) ==
  /\ pc = "menu"
  /\ \E L \in {removePayRecordsForMonth(Ledger, month)} :
         /\ employees' = L.employees
         /\ loadedPayFiles' = L.loadedPayFiles
         /\ processedMonths' = L.processedMonths
         /\ errors' = L.errors
  /\ logged' = <<>>
  /\ listing' = <<>>
  /\ last' = Op("removePayRecordsForMonth", month, 0, "ok", TRUE)
  /\ pc' = pc

\* sortEmployeesMenu(), the month chosen by idx and the criterion by crit
Call_sortEmployeesMenu(idx, crit) ==
  /\ pc = "menu"
  /\ IF processedMonths = <<>> \/ idx = 0
       THEN /\ listing' = <<>>
            /\ last' = Op("sortEmployeesMenu", <<>>, 0, "returned", TRUE)
       ELSE /\ listing' \in SortResults(employees, processedMonths[idx], crit)
            /\ last' = Op("sortEmployeesMenu", processedMonths[idx], crit, "listed", TRUE)
  /\ logged' = <<>>
  /\ UNCHANGED <<pc, employees, loadedPayFiles, processedMonths, errors>>

(***************************************************************************)
(* Spec: after the registry is loaded, any sequence of loadPayFile and      *)
(* removePayRecordsForMonth calls.                                         *)
(***************************************************************************)
Start ==
  \E file \in RegistryFiles : Call_loadEmployees(file) /\ UNCHANGED given

\* (choice is drawn only when the call asks)
ProcessPayFile ==
  \E filename \in PayFileNames, replace \in BOOLEAN, choice \in {YES, NO} :
    /\ Asks(Ledger, MonthOf(filename), replace) \/ choice = NO
    /\ \E file \in PayFiles : Call_loadPayFile(filename, file, replace, choice)
    /\ UNCHANGED given

RemoveMonth ==
  \E month \in Months : Call_removePayRecordsForMonth(month) /\ UNCHANGED given

Next == Start \/ ProcessPayFile \/ RemoveMonth

Spec == Init /\ [][Next]_vars

(***************************************************************************)
(* SpecSort: pay files are processed and the sorted listing is asked for.  *)
(***************************************************************************)
StartSort ==
  \E file \in SortRegistryFiles : Call_loadEmployees(file) /\ UNCHANGED given

SortMenu ==
  \E idx \in 0..Len(processedMonths), crit \in Criteria :
    Call_sortEmployeesMenu(idx, crit) /\ UNCHANGED given

NextSort == StartSort \/ ProcessPayFile \/ SortMenu

SpecSort == Init /\ [][NextSort]_vars

(***************************************************************************)
(* SpecGiven: one pay file submission is fixed in advance; the registry is *)
(* loaded, at most one pay file is processed on the fresh ledger, and then *)
(* the given submission is made.                                           *)
(***************************************************************************)
GivenInputs ==
  [set : {TRUE}, used : {FALSE}, filename : PayFileNames, file : PayFiles,
   replace : BOOLEAN, choice : {YES, NO}]

InitGiven == Constructed /\ given \in GivenInputs

FirstLoad ==
  /\ ~given.used
  /\ loadedPayFiles = {}
  /\ processedMonths = <<>>
  /\ \E filename \in PayFileNames, file \in PayFiles :
       Call_loadPayFile(filename, file, FALSE, NO)
  /\ UNCHANGED given

LoadGiven ==
  /\ given.set
  /\ ~given.used
  /\ Call_loadPayFile(given.filename, given.file, given.replace, given.choice)
  /\ given' = [given EXCEPT !.used = TRUE]

NextGiven == Start \/ FirstLoad \/ LoadGiven

SpecGiven == InitGiven /\ [][NextGiven]_vars


(***************************************************************************)
(* What the properties speak of.                                           *)
(***************************************************************************)
\* the month-keys that are a key of some employee's hoursWorked
HoursMonths(emps) == UNION {DOMAIN emps[id].hoursWorked : id \in DOMAIN emps}

\* the registry: who the employees are, without their hours
Registry(emps) ==
  [id \in DOMAIN emps |->
     [id |-> emps[id].id, name |-> emps[id].name,
      hourlyRate |-> emps[id].hourlyRate]]

\* v without every occurrence of x
Without(v, x) == SelectSeq(v, LAMBDA y : y # x)

\* the hours entries of the months other than month
OtherHours(emps, month) ==
  [id \in DOMAIN emps |-> MapErase(emps[id].hoursWorked, month)]

NoDuplicates(v) == \A i, j \in DOMAIN v : i # j => v[i] # v[j]

\* a month-key no pay file of the model names
NeverMonth == <<"X">>

\* the order of std::string: by character, digits before capitals before
\* small letters; a proper prefix goes first
CharOrder == Digits \o UpperCase \o LowerCase
CharCode(c) == CHOOSE i \in DOMAIN CharOrder : CharOrder[i] = c
RECURSIVE StrLess(_, _)
StrLess(a, b) ==
  IF b = <<>> THEN FALSE
  ELSE IF a = <<>> THEN TRUE
  ELSE IF Head(a) # Head(b) THEN CharCode(Head(a)) < CharCode(Head(b))
  ELSE StrLess(Tail(a), Tail(b))

ChangedLedger ==
  \/ employees' # employees
  \/ loadedPayFiles' # loadedPayFiles
  \/ processedMonths' # processedMonths

(***************************************************************************)
(* C2. Whenever loadPayFile is called for a pay file that cannot be        *)
(* opened, it returns failure and every employee's hours map,              *)
(* loadedPayFiles and processedMonths are what they were before the call,  *)
(* also when the month was processed before and the prompt answered 'y'.   *)
(***************************************************************************)
C2_UnreadableChangesNothing ==
  [][(last'.op = "loadPayFile" /\ last'.outcome = "unreadable")
       => (~last'.ret /\ ~ChangedLedger)]_vars

(***************************************************************************)
(* C3. When loadPayFile run without replace for a month-key already in     *)
(* loadedPayFiles is answered 'n' at the prompt, it returns false and      *)
(* leaves every hours map, loadedPayFiles, processedMonths and the error   *)
(* list unchanged; a call is declined only for a month-key in              *)
(* loadedPayFiles.                                                         *)
(***************************************************************************)
C3_DeclinedChangesNothing ==
  [][(last'.op = "loadPayFile" /\ last'.outcome = "declined")
       => /\ ~last'.ret
          /\ last'.month \in loadedPayFiles
          /\ ~ChangedLedger
          /\ errors' = errors
          /\ logged' = <<>>]_vars

\* a call was declined for a month with hours recorded
C3_Witness ==
  /\ last.op = "loadPayFile"
  /\ last.outcome = "declined"
  /\ last.month \in HoursMonths(employees)

(***************************************************************************)
(* C4. After any sequence of loadPayFile and removePayRecordsForMonth      *)
(* calls, every month-key that is a key of some employee's hoursWorked is  *)
(* an element of processedMonths.                                          *)
(***************************************************************************)
C4_HoursMonthsAreProcessed ==
  HoursMonths(employees) \subseteq Elems(processedMonths)

\* a month was removed while another month keeps its hours
C4_Witness ==
  /\ last.op = "removePayRecordsForMonth"
  /\ last.month \notin HoursMonths(employees)
  /\ HoursMonths(employees) # {}

(***************************************************************************)
(* C5. A successful loadPayFile appends the month-key to processedMonths   *)
(* only if it is not present: no month-key occurs more than once in        *)
(* processedMonths, and a loadPayFile keeps the relative order of the      *)
(* other months.                                                           *)
(***************************************************************************)
C5_MonthsAppendedOnce ==
  /\ [](NoDuplicates(processedMonths))
  /\ [][last'.op = "loadPayFile"
          => Without(processedMonths', last'.month)
               = Without(processedMonths, last'.month)]_vars

(***************************************************************************)
(* C6. removePayRecordsForMonth(M) leaves no employee with an hours entry  *)
(* for M and M absent from processedMonths, changes no hours entry and no  *)
(* processedMonths element of another month-key, and changes nothing when  *)
(* M was never processed.                                                  *)
(***************************************************************************)
C6_RemoveClearsTheMonth ==
  [][last'.op = "removePayRecordsForMonth"
       => /\ last'.month \notin HoursMonths(employees')
          /\ last'.month \notin Elems(processedMonths')
          /\ OtherHours(employees', last'.month) = OtherHours(employees, last'.month)
          /\ Without(processedMonths', last'.month)
               = Without(processedMonths, last'.month)
          /\ (last'.month \notin Elems(processedMonths) \cup HoursMonths(employees)
                => ~ChangedLedger)]_vars


(***************************************************************************)
(* C8. The sorted month listing for month M and a criterion contains       *)
(* exactly the employees with an hours entry for M, ordered by the         *)
(* criterion descending, employees with equal criterion values in          *)
(* ascending identifier order.                                             *)
(***************************************************************************)
SortKey(e, month, crit) ==
  CASE crit = SORT_HOURLY_RATE  -> e.hourlyRate
    [] crit = SORT_HOURS_WORKED -> e.hoursWorked[month]
    [] crit = SORT_NET_PAY      -> getNetPay(e, month)

C8_SortedListing ==
  (last.op = "sortEmployeesMenu" /\ last.outcome = "listed") =>
    LET ids    == Worked(employees, last.month)
        key(i) == SortKey(employees[listing[i]], last.month, last.crit)
    IN  /\ Elems(listing) = ids
        /\ Len(listing) = Cardinality(ids)
        /\ \A i, j \in DOMAIN listing : i < j =>
             \/ DLess(key(j), key(i))
             \/ key(i) = key(j) /\ StrLess(listing[i], listing[j])

(***************************************************************************)
(* C9. For every employee e and month m: getGrossPay is rate x hours[m]    *)
(* when e has an hours entry for m and 0 otherwise; getTax is              *)
(* max(0, gross*12 - 12570) * 0.20 / 12; getNetPay is gross - tax; all     *)
(* three are 0 without hours; 0 <= tax <= gross; rate 15 and hours 160     *)
(* give gross 2400, tax 270.50, net 2129.50; rate 10 and hours 100 give    *)
(* tax 0 and net 1000.  (The figures are compared as fractions, by         *)
(* cross-multiplication in the integers.)                                  *)
(***************************************************************************)
Max0(x) == IF x < 0 THEN 0 ELSE x

C9_PayFigures ==
  \A id \in DOMAIN employees, m \in Months \cup {NeverMonth} :
    LET e == employees[id]
        r == e.hourlyRate
        g == getGrossPay(e, m)
        t == getTax(e, m)
        n == getNetPay(e, m)
    IN  /\ m \notin DOMAIN e.hoursWorked => g.n = 0 /\ t.n = 0 /\ n.n = 0
        /\ m \in DOMAIN e.hoursWorked =>
             LET h == e.hoursWorked[m]
             IN  /\ g.n * (r.d * h.d) = g.d * (r.n * h.n)
                 /\ (r = [n |-> 15, d |-> 1] /\ h = [n |-> 160, d |-> 1]) =>
                      /\ g = [n |-> 2400, d |-> 1]
                      /\ t = [n |-> 541, d |-> 2]
                      /\ n = [n |-> 4259, d |-> 2]
                 /\ (r = [n |-> 10, d |-> 1] /\ h = [n |-> 100, d |-> 1]) =>
                      /\ t = [n |-> 0, d |-> 1]
                      /\ n = [n |-> 1000, d |-> 1]
        /\ t.n * 60 * g.d = t.d * Max0(12 * g.n - 12570 * g.d)
        /\ n.n * (g.d * t.d) = n.d * (g.n * t.d - t.n * g.d)
        /\ 0 <= t.n
        /\ t.n * g.d <= g.n * t.d

\* both worked examples and an employee without hours occur in one state
C9_Witness ==
  /\ \E id \in DOMAIN employees : \E m \in DOMAIN employees[id].hoursWorked :
       /\ employees[id].hourlyRate = [n |-> 15, d |-> 1]
       /\ employees[id].hoursWorked[m] = [n |-> 160, d |-> 1]
  /\ \E id \in DOMAIN employees : \E m \in DOMAIN employees[id].hoursWorked :
       /\ employees[id].hourlyRate = [n |-> 10, d |-> 1]
       /\ employees[id].hoursWorked[m] = [n |-> 100, d |-> 1]
  /\ \E id \in DOMAIN employees, m \in Months : m \notin DOMAIN employees[id].hoursWorked

(***************************************************************************)
(* C10. Pay processing never changes the registry: every step after        *)
(* loadEmployees (loadPayFile, successful, declined or failed, with known  *)
(* or unknown identifiers; removePayRecordsForMonth; the listing) leaves   *)
(* the set of identifiers and each employee's id, name and hourly rate as  *)
(* they were.                                                              *)
(***************************************************************************)
C10_RegistryUnchanged ==
  [][pc = "menu" => Registry(employees') = Registry(employees)]_vars

\* a pay file with an unknown identifier was processed, hours are recorded
C10_Witness ==
  /\ last.op = "loadPayFile"
  /\ last.outcome = "ok"
  /\ logged # <<>>
  /\ HoursMonths(employees) # {}

(***************************************************************************)
(* The given submission (SpecGiven).                                       *)
(***************************************************************************)
\* the step that makes the given submission
GivenStep == ~given.used /\ given.used'
GivenMonth == MonthOf(given.filename)

\* a fresh ledger with the registry of emps
FreshLedger(emps) ==
  [employees |-> [id \in DOMAIN emps |->
                    Employee(emps[id].id, emps[id].name, emps[id].hourlyRate)],
   loadedPayFiles |-> {}, processedMonths |-> <<>>, errors |-> <<>>]

\* the ledger the given submission leaves when made alone on a fresh ledger
GivenAlone ==
  loadPayFile(FreshLedger(employees), given.filename, given.file,
              given.replace, given.choice).ledger

\* is the given submission declined at the prompt?
GivenDeclined ==
  Asks(Ledger, GivenMonth, given.replace) /\ given.choice # YES

WellFormed(line) == Len(line) >= 2 /\ CanReadDouble(line[2])
NormalId(line) == toUpper(trim(line[1]))
\* the positions of the well-formed lines whose identifier is (un)known
UnknownLines(lines, emps) ==
  {i \in DOMAIN lines : WellFormed(lines[i]) /\ NormalId(lines[i]) \notin DOMAIN emps}
KnownLines(lines, emps) ==
  {i \in DOMAIN lines : WellFormed(lines[i]) /\ NormalId(lines[i]) \in DOMAIN emps}

(***************************************************************************)
(* C1. For any registry and any two pay files F1 and F2 for the same       *)
(* month-key M: loadPayFile for F1 and then loadPayFile for F2 with        *)
(* replace=true leaves the ledger (every employee's hours map,             *)
(* loadedPayFiles, processedMonths) identical to loadPayFile for F2 alone  *)
(* on a fresh ledger with the same registry.                               *)
(***************************************************************************)
C1_ReplaceLikeAlone ==
  [][( /\ GivenStep
       /\ given.replace
       /\ given.file.readable
       /\ loadedPayFiles = {GivenMonth}
       /\ processedMonths = <<GivenMonth>> )
       => /\ employees' = GivenAlone.employees
          /\ loadedPayFiles' = GivenAlone.loadedPayFiles
          /\ processedMonths' = GivenAlone.processedMonths]_vars

(***************************************************************************)
(* C7. During loadPayFile of a readable file, each well-formed line whose  *)
(* normalized identifier is not in the registry adds exactly one error     *)
(* ("not a valid employee ID") to the collected errors, which are logged   *)
(* in the order of the lines, adds no employee to the registry, and does   *)
(* not stop processing: every line with a known identifier, also a later   *)
(* one, has hours recorded for the month, and the call returns success.    *)
(***************************************************************************)
C7_UnknownIdsAreCollected ==
  [][(GivenStep /\ given.file.readable /\ ~GivenDeclined) =>
       LET lines   == given.file.lines
           unknown == UnknownLines(lines, employees)
       IN  /\ last'.ret
           /\ last'.outcome = "ok"
           /\ Len(logged') = Cardinality(unknown)
           /\ \A i \in unknown :
                LET k == Cardinality({j \in unknown : j <= i})
                IN  logged'[k] = InvalidIdError(given.filename, NormalId(lines[i]))
           /\ Registry(employees') = Registry(employees)
           /\ \A i \in KnownLines(lines, employees) :
                GivenMonth \in DOMAIN employees'[NormalId(lines[i])].hoursWorked]_vars

\* the given file had an unknown identifier and then a known one, whose
\* hours are recorded; one error was logged
C7_Witness ==
  /\ given.used
  /\ last.outcome = "ok"
  /\ Len(given.file.lines) = 2
  /\ 1 \in UnknownLines(given.file.lines, employees)
  /\ 2 \in KnownLines(given.file.lines, employees)
  /\ Len(logged) = 1
  /\ GivenMonth \in DOMAIN employees[NormalId(given.file.lines[2])].hoursWorked

(***************************************************************************)
(* SpecAgain: a submission without replace, answered 'y' if asked, is      *)
(* fixed in advance; the registry is loaded, pay files are processed (with *)
(* any replace flag and any answer) and months removed, and then the given *)
(* submission is made.                                                     *)
(***************************************************************************)
\* the pay files processed before the given one: one line each
EarlierFiles == {TextFile(<<l>>) : l \in PayLineSet}

AgainInputs == {g \in GivenInputs : ~g.replace /\ g.choice = YES}

InitAgain == Constructed /\ given \in AgainInputs

EarlierLoad ==
  /\ ~given.used
  /\ \E filename \in PayFileNames, replace \in BOOLEAN, choice \in {YES, NO} :
       /\ Asks(Ledger, MonthOf(filename), replace) \/ choice = NO
       /\ \E file \in EarlierFiles : Call_loadPayFile(filename, file, replace, choice)
  /\ UNCHANGED given

EarlierRemove == ~given.used /\ RemoveMonth

NextAgain == Start \/ EarlierLoad \/ EarlierRemove \/ LoadGiven

SpecAgain == InitAgain /\ [][NextAgain]_vars

\* how often x occurs in v
Count(v, x) == Cardinality({i \in DOMAIN v : v[i] = x})

(***************************************************************************)
(* C11. When loadPayFile is called without replace for a month-key M in    *)
(* loadedPayFiles and the prompt is answered 'y', the old records of M are *)
(* removed before any line is applied: after a successful read an employee *)
(* has an hours entry for M if and only if the new file has a well-formed  *)
(* line for that employee, M is in loadedPayFiles, and M occurs exactly    *)
(* once in processedMonths, after the other months in their old order.     *)
(***************************************************************************)
C11_PromptedReplaceIsClean ==
  [][( /\ GivenStep
       /\ ~given.replace
       /\ given.choice = YES
       /\ GivenMonth \in loadedPayFiles
       /\ given.file.readable )
       => LET lines == given.file.lines
          IN  /\ last'.ret
              /\ \A id \in DOMAIN employees' :
                   GivenMonth \in DOMAIN employees'[id].hoursWorked
                     <=> \E i \in KnownLines(lines, employees) : NormalId(lines[i]) = id
              /\ GivenMonth \in loadedPayFiles'
              /\ Count(processedMonths', GivenMonth) = 1
              /\ processedMonths'
                   = Append(Without(processedMonths, GivenMonth), GivenMonth)]_vars

(***************************************************************************)
(* C12. Ingestion sets hours, it does not accumulate: after a successful   *)
(* loadPayFile for month M, each known employee named in the file has      *)
(* hours[M] equal to the hours value of the last well-formed line naming   *)
(* that employee (not a sum over several lines or over an earlier          *)
(* ingestion), and the hours entries of every other month-key are          *)
(* unchanged.                                                              *)
(***************************************************************************)
\* the hours value a well-formed line names
HoursOf(line) == Dbl(DecimalValue(DigitPrefix(line[2])))

C12_IngestionSetsHours ==
  [][(GivenStep /\ given.file.readable /\ ~GivenDeclined) =>
       LET lines == given.file.lines
       IN  /\ last'.ret
           /\ \A id \in DOMAIN employees :
                LET named == {i \in KnownLines(lines, employees) :
                                NormalId(lines[i]) = id}
                IN  named # {} =>
                      LET k == CHOOSE i \in named : \A j \in named : j <= i
                      IN  /\ GivenMonth \in DOMAIN employees'[id].hoursWorked
                          /\ employees'[id].hoursWorked[GivenMonth] = HoursOf(lines[k])
           /\ OtherHours(employees', GivenMonth) = OtherHours(employees, GivenMonth)]_vars

\* the given file named E1 twice (160, then 100) for a month ingested
\* before with replace=true, and E1 has 100 hours for it
C12_Witness ==
  /\ given.used
  /\ given.replace
  /\ last.outcome = "ok"
  /\ given.file.lines = <<PayE1h160, PayE1h100>>
  /\ Count(processedMonths, GivenMonth) = 2
  /\ employees[<<"E", "1">>].hoursWorked[GivenMonth] = Dbl(100)

(***************************************************************************)
(* C13. The two records of processed months stay in agreement: after any   *)
(* sequence of loadPayFile (any replace flag, any prompt answer, readable  *)
(* or unreadable file) and removePayRecordsForMonth calls, the set         *)
(* loadedPayFiles equals the set of elements of processedMonths.           *)
(***************************************************************************)
C13_ProcessedRecordsAgree == loadedPayFiles = Elems(processedMonths)

=============================================================================
